---- MODULE Spec2Model ----
(***************************************************************************)
(* Njord.py: a straight-line script that loads a YAML file holding a       *)
(* sequence of sequences of sensor records, flattens it, normalises the    *)
(* records into a table (pandas.json_normalize), shifts the two epoch      *)
(* columns up by one row, drops incomplete rows, builds a time column,     *)
(* drops the two epoch columns and plots.                                  *)
(*                                                                         *)
(* Each statement of the script is one action; pc is the statement about   *)
(* to execute.  The name `data` of the script is bound first to the flat   *)
(* list (lines 9-12) and from line 14 on to the DataFrame: the model keeps *)
(* the list in `data` and the DataFrame in `frame`.                        *)
(***************************************************************************)
EXTENDS Integers, Sequences, FiniteSets, TLC

VARIABLES
    file,         \* the file on disk: [kind, content] (the environment)
    pc,           \* the statement about to execute
    stream,       \* the file handle of line 6: "none", "open", "closed"
    opens,        \* how many times open() returned a handle
    data_nested,  \* line 7
    i, j,         \* positions of the two for loops of lines 10-11
    data,         \* the flat list of lines 9-12
    frame,        \* the DataFrame bound to `data` from line 14 on
    error,        \* the exception propagating, "none" when there is none
    raised_at,    \* the source line that raised it, 0 when there is none
    column,       \* shift harness: the input column
    once,         \* shift harness: column.shift(-1)
    twice,        \* shift harness: column.shift(-1).shift(-1)
    direct        \* shift harness: column.shift(-2)

vars == <<file, pc, stream, opens, data_nested, i, j, data, frame, error,
          raised_at, column, once, twice, direct>>

pipeline == <<file, stream, opens, data_nested, i, j, data, frame, error, raised_at>>
harness == <<column, once, twice, direct>>

----------------------------------------------------------------------------
(* Bounds of the model *)

MaxOuter == 2      \* inner sequences in the input
MaxRecords == 3    \* records in the input, over all inner sequences
MaxColumn == 4     \* length of a column given to the shift harness

(* Program constants *)

NanosPerSec == 1000000000
LineShift == 15
LinePlotTemperature == 30

----------------------------------------------------------------------------
(* Values *)

\* A cell of a DataFrame: Null is NaN/None, Some(v) holds v.
Null == <<>>
Some(v) == <<v>>

\* A value yaml.safe_load returns: None, a number, a string, a list, or a
\* dict, which keeps its keys in the order of the document (pairs is the
\* sequence of its <<key, value>> pairs).
None == [tag |-> "none", val |-> 0, text |-> "", items |-> <<>>, pairs |-> <<>>]
Scalar(v) == [tag |-> "scalar", val |-> v, text |-> "", items |-> <<>>, pairs |-> <<>>]
Str(s) == [tag |-> "str", val |-> 0, text |-> s, items |-> <<>>, pairs |-> <<>>]
List(s) == [tag |-> "seq", val |-> 0, text |-> "", items |-> s, pairs |-> <<>>]
Mapping(pairs) ==
    [tag |-> "map", val |-> 0, text |-> "", items |-> <<>>, pairs |-> pairs]

\* dict operations: the keys in order, membership and lookup.
Keys(m) == [k \in 1..Len(m.pairs) |-> m.pairs[k][1]]
KeySet(m) == {m.pairs[k][1] : k \in 1..Len(m.pairs)}
Get(m, key) == m.pairs[CHOOSE k \in 1..Len(m.pairs) : m.pairs[k][1] = key][2]

\* The characters of a string, each a string of length one.
Characters(s) == [k \in 1..Len(s) |-> SubSeq(s, k, k)]

\* iter(value): a list yields its items, a dict its keys, a string its
\* characters; None and numbers are not iterable (TypeError).
Iterable(v) == v.tag \in {"seq", "map", "str"}
Iter(v) ==
    CASE v.tag = "seq" -> v.items
      [] v.tag = "map" -> [k \in 1..Len(v.pairs) |-> Str(v.pairs[k][1])]
      [] v.tag = "str" -> LET cs == Characters(v.text)
                          IN  [k \in 1..Len(cs) |-> Str(cs[k])]

XYZ(x, y, z) == Mapping(<<<<"x", Scalar(x)>>, <<"y", Scalar(y)>>, <<"z", Scalar(z)>>>>)
XY(x, y) == Mapping(<<<<"x", Scalar(x)>>, <<"y", Scalar(y)>>>>)

\* The records the well-formed input is drawn from.  Every record has the
\* two mandatory epoch fields; "T" has a temperature only, "full" has every
\* field the plots read, "partial" has no temperature, no acceleration.z
\* and no angular_velocity.
Times == {<<0, 0>>, <<1, 500000000>>}
Shapes == {"T", "full", "partial"}

MakeRecord(t, shape) ==
    CASE shape = "T" ->
           Mapping(<<<<"secs_since_epoch", Scalar(t[1])>>,
                     <<"nanos_since_epoch", Scalar(t[2])>>,
                     <<"temperature", Scalar(20 + t[1])>>>>)
      [] shape = "full" ->
           Mapping(<<<<"acceleration", XYZ(1, 2, 3)>>,
                     <<"angular_velocity", XYZ(4, 5, 6)>>,
                     <<"temperature", Scalar(20 + t[1])>>,
                     <<"secs_since_epoch", Scalar(t[1])>>,
                     <<"nanos_since_epoch", Scalar(t[2])>>>>)
      [] shape = "partial" ->
           Mapping(<<<<"acceleration", XY(1, 2)>>,
                     <<"secs_since_epoch", Scalar(t[1])>>,
                     <<"nanos_since_epoch", Scalar(t[2])>>>>)

Records == {MakeRecord(t, shape) : t \in Times, shape \in Shapes}

SeqsUpTo(S, n) == UNION {[1..k -> S] : k \in 0..n}

RECURSIVE Sum(_)
Sum(s) == IF s = <<>> THEN 0 ELSE Head(s) + Sum(Tail(s))

RECURSIVE Group(_, _)
\* The records of flat cut into inner lists of the lengths lens.
Group(flat, lens) ==
    IF lens = <<>> THEN <<>>
    ELSE <<List(SubSeq(flat, 1, Head(lens)))>>
         \o Group(SubSeq(flat, Head(lens) + 1, Len(flat)), Tail(lens))

\* Every list of at most MaxOuter lists of records holding at most
\* MaxRecords records in all (empty inner lists included).
NestedInputs ==
    {List(Group(flat, lens)) :
        <<flat, lens>> \in
            {p \in SeqsUpTo(Records, MaxRecords) \X SeqsUpTo(0..MaxRecords, MaxOuter) :
                Sum(p[2]) = Len(p[1])}}

\* Documents that parse but are not a list of lists of records: an empty
\* document (None), a number, a string, a dict, a list of records that are
\* not nested in inner lists, lists whose items or inner items are numbers
\* or strings, and lists nested three deep.
OtherDocuments ==
    LET r0 == MakeRecord(<<0, 0>>, "T")
        r1 == MakeRecord(<<1, 500000000>>, "T")
    IN  {None, Scalar(42), Str("ab"),
         Mapping(<<<<"ab", Scalar(1)>>, <<"yz", Scalar(2)>>>>),
         List(<<Scalar(42)>>),
         List(<<List(<<r0>>), Scalar(42)>>),
         List(<<Str("ab")>>),
         List(<<List(<<Scalar(1), Str("ab")>>)>>),
         List(<<List(<<r0, Scalar(42), r1>>)>>),
         List(<<List(<<r0, r1, Str("ab")>>)>>),
         Str("temperature"),
         List(<<Str("temperature")>>),
         List(<<List(<<List(<<r0>>)>>)>>),
         List(<<List(<<List(<<r0>>), r1, Scalar(42)>>)>>),
         List(<<List(<<r0, List(<<r1>>)>>)>>)}
        \cup {List(<<r>>) : r \in Records}
        \cup {List(<<r0, r>>) : r \in Records}

\* What open() and the read inside yaml.safe_load raise for a file that
\* cannot be opened or read ("none" when they succeed).
OpenError(kind) ==
    CASE kind = "missing" -> "FileNotFoundError"
      [] kind = "directory" -> "IsADirectoryError"
      [] OTHER -> "none"
LoadError(kind) ==
    CASE kind = "malformed" -> "YAMLError"
      [] kind = "not_utf8" -> "UnicodeDecodeError"
      [] OTHER -> "none"

\* The files the script can find at its path.
Files ==
    {[kind |-> k, content |-> None] : k \in {"missing", "directory", "malformed", "not_utf8"}}
    \cup {[kind |-> "ok", content |-> n] : n \in NestedInputs \cup OtherDocuments}

EmptyFrame == [columns |-> <<>>, rows |-> <<>>]

----------------------------------------------------------------------------
(* Lines 6-7: with open(...) as stream: data_nested = yaml.safe_load(stream) *)

\* data_nested is unbound until line 7 has run; None stands for that here.
Init ==
    /\ file \in Files
    /\ pc = "open"
    /\ stream = "none"
    /\ opens = 0
    /\ data_nested = None
    /\ i = 1
    /\ j = 1
    /\ data = <<>>
    /\ frame = EmptyFrame
    /\ error = "none"
    /\ raised_at = 0
    /\ column = <<>>
    /\ once = <<>>
    /\ twice = <<>>
    /\ direct = <<>>

\* open(): an OSError when the path cannot be opened, a handle otherwise.
Open ==
    /\ pc = "open"
    /\ IF OpenError(file.kind) # "none"
       THEN /\ pc' = "raised"
            /\ error' = OpenError(file.kind)
            /\ raised_at' = 6
            /\ UNCHANGED <<stream, opens>>
       ELSE /\ pc' = "load"
            /\ stream' = "open"
            /\ opens' = opens + 1
            /\ UNCHANGED <<error, raised_at>>
    /\ UNCHANGED <<file, data_nested, i, j, data, frame>>
    /\ UNCHANGED harness

\* yaml.safe_load(stream): the parsed document, or the error of the read
\* or of the parser.
SafeLoad ==
    /\ pc = "load"
    /\ pc' = "with_exit"
    /\ IF LoadError(file.kind) # "none"
       THEN /\ error' = LoadError(file.kind)
            /\ raised_at' = 7
            /\ UNCHANGED data_nested
       ELSE /\ data_nested' = file.content
            /\ UNCHANGED <<error, raised_at>>
    /\ UNCHANGED <<file, stream, opens, i, j, data, frame>>
    /\ UNCHANGED harness

\* The handle when the with block is left without the close of __exit__ on
\* the exception path.
ExitStreamNoCloseOnError(handle, exc) == IF exc = "none" THEN "closed" ELSE handle

\* The file object's __exit__ closes the handle, whether or not an
\* exception is propagating.
ExitStream(handle, exc) == "closed"

\* Leaving the with block: __exit__ runs, then the exception (if any)
\* propagates and ends the run.
WithExit ==
    /\ pc = "with_exit"
    /\ stream' = ExitStream(stream, error)
    /\ pc' = IF error = "none" THEN "flatten" ELSE "raised"
    /\ UNCHANGED <<file, opens, data_nested, i, j, data, frame, error, raised_at>>
    /\ UNCHANGED harness

----------------------------------------------------------------------------
(* Lines 9-12: the nested loop.  i and j are the positions of the two
   iterators; the current sublist is item i of iter(data_nested). *)

\* data.insert(0, item)
PrependItem(list, item) == <<item>> \o list

\* data.append(item)
AppendItem(list, item) == Append(list, item)

\* The outer loop has a current sublist.
HasSublist == Iterable(data_nested) /\ i <= Len(Iter(data_nested))
Sublist == Iter(data_nested)[i]

\* One iteration of the inner loop.
FlattenAppend ==
    /\ pc = "flatten"
    /\ HasSublist
    /\ Iterable(Sublist)
    /\ j <= Len(Iter(Sublist))
    /\ data' = AppendItem(data, Iter(Sublist)[j])
    /\ j' = j + 1
    /\ UNCHANGED <<file, pc, stream, opens, data_nested, i, frame, error, raised_at>>
    /\ UNCHANGED harness

\* The inner loop is exhausted: the outer loop takes the next sublist.
FlattenNextSublist ==
    /\ pc = "flatten"
    /\ HasSublist
    /\ Iterable(Sublist)
    /\ j > Len(Iter(Sublist))
    /\ i' = i + 1
    /\ j' = 1
    /\ UNCHANGED <<file, pc, stream, opens, data_nested, data, frame, error, raised_at>>
    /\ UNCHANGED harness

\* The outer loop is exhausted.
FlattenDone ==
    /\ pc = "flatten"
    /\ Iterable(data_nested)
    /\ i > Len(Iter(data_nested))
    /\ pc' = "normalize"
    /\ UNCHANGED pipeline
    /\ UNCHANGED harness

\* A for statement over something that is not iterable raises TypeError:
\* line 10 for the document itself, line 11 for the current sublist.
FlattenRaise ==
    /\ pc = "flatten"
    /\ \/ ~Iterable(data_nested) /\ raised_at' = 10
       \/ HasSublist /\ ~Iterable(Sublist) /\ raised_at' = 11
    /\ pc' = "raised"
    /\ error' = "TypeError"
    /\ UNCHANGED <<file, stream, opens, data_nested, i, j, data, frame>>
    /\ UNCHANGED harness

----------------------------------------------------------------------------
(* Line 14: data = pd.json_normalize(data) *)

\* A dict built by pandas is a sequence of <<key, value>> pairs in
\* insertion order.  normalized_dict[key] = value: a key already there
\* keeps its place and takes the new value, a new key goes to the end.
HasItem(dict, key) == \E k \in 1..Len(dict) : dict[k][1] = key
SetItem(dict, key, value) ==
    IF HasItem(dict, key)
    THEN [k \in 1..Len(dict) |-> IF dict[k][1] = key THEN <<key, value>> ELSE dict[k]]
    ELSE Append(dict, <<key, value>>)
GetItem(dict, key) == dict[CHOOSE k \in 1..Len(dict) : dict[k][1] = key][2]

\* The key of a nested field with the path of its parents left out.
JoinKeyNoPrefix(key_string, separator, key) == key

\* new_key = f"{key_string}{separator}{key}", without the leading separator
\* when key_string is empty.
JoinKey(key_string, separator, key) ==
    IF key_string = "" THEN key ELSE key_string \o separator \o key

RECURSIVE NormaliseJson(_, _, _, _)
RECURSIVE NormaliseItems(_, _, _, _, _)

\* pandas _normalise_json: a dict is walked in its order with the path so
\* far as prefix, anything else is stored under the path.
NormaliseJson(value, key_string, normalized_dict, separator) ==
    IF value.tag = "map"
    THEN NormaliseItems(value.pairs, 1, key_string, normalized_dict, separator)
    ELSE SetItem(normalized_dict, key_string, value)

\* for key, value in data.items(): ..., from the pair at position k on.
NormaliseItems(items, k, key_string, normalized_dict, separator) ==
    IF k > Len(items) THEN normalized_dict
    ELSE NormaliseItems(items, k + 1, key_string,
             NormaliseJson(items[k][2], JoinKey(key_string, separator, items[k][1]),
                           normalized_dict, separator),
             separator)

RECURSIVE Update(_, _)
\* {**dict, **other}: the pairs of other set into dict in their order.
Update(dict, other) ==
    IF other = <<>> THEN dict
    ELSE Update(SetItem(dict, Head(other)[1], Head(other)[2]), Tail(other))

IsDict(pair) == pair[2].tag = "map"
IsNotDict(pair) == pair[2].tag # "map"

\* pandas _normalise_json_ordered: the top-level values that are no dicts
\* come first, the flattened dicts are merged over them.
NormaliseJsonOrdered(record, separator) ==
    LET top_dict == SelectSeq(record.pairs, IsNotDict)
        nested_dict == NormaliseJson(Mapping(SelectSeq(record.pairs, IsDict)), "",
                                     <<>>, separator)
    IN  Update(top_dict, nested_dict)

RECURSIVE SimpleJsonNormalize(_, _)
\* pandas _simple_json_normalize: a dict gives its flattened dict, a list
\* the list of its normalised items, anything else {}.
SimpleJsonNormalize(ds, separator) ==
    CASE ds.tag = "map" -> Mapping(NormaliseJsonOrdered(ds, separator))
      [] ds.tag = "seq" ->
            List([k \in 1..Len(ds.items) |-> SimpleJsonNormalize(ds.items[k], separator)])
      [] OTHER -> Mapping(<<>>)

\* DataFrame(list of dicts) fills a column a dict lacks with NaN.
MissingCell == Null

\* The cell holding a value: None is null like NaN.
Cell(value) ==
    CASE value.tag = "none" -> Null
      [] value.tag = "scalar" -> Some(value.val)
      [] OTHER -> Some(value)

RECURSIVE AddKeys(_, _)
\* columns with the keys of dict that are not in it yet added at its end.
AddKeys(columns, dict) ==
    IF dict = <<>> THEN columns
    ELSE AddKeys(IF \E k \in 1..Len(columns) : columns[k] = Head(dict)[1]
                 THEN columns ELSE Append(columns, Head(dict)[1]),
                 Tail(dict))

RECURSIVE ColumnsOf(_)
\* The keys of the dicts in the order of their first appearance.
ColumnsOf(dicts) ==
    IF dicts = <<>> THEN <<>>
    ELSE AddKeys(ColumnsOf(SubSeq(dicts, 1, Len(dicts) - 1)), dicts[Len(dicts)].pairs)

\* The column labels of a frame as a set.
ColumnSet(fr) == {fr.columns[k] : k \in 1..Len(fr.columns)}

\* pandas _list_of_dict_to_arrays: the columns are the keys in the order of
\* their first appearance, one row per dict in order.
ListOfDictToArrays(dicts) ==
    LET cols == ColumnsOf(dicts)
    IN  [columns |-> cols,
         rows |-> [k \in 1..Len(dicts) |->
                     [c \in {cols[n] : n \in 1..Len(cols)} |->
                        IF HasItem(dicts[k].pairs, c)
                        THEN Cell(GetItem(dicts[k].pairs, c)) ELSE MissingCell]]]

\* list(row) of pandas to_object_array: the items of a list, the keys of a
\* dict.
RowItems(row) == Iter(row)

\* pandas _list_to_arrays: one positional column per position of the
\* longest row (labels 0, 1, ..., written here as the strings "0", "1",
\* ...), a shorter row filled up with None.
ListToArrays(lists) ==
    LET lens == {Len(RowItems(lists[k])) : k \in 1..Len(lists)}
        width == CHOOSE n \in lens : \A m \in lens : m <= n
        labels == [n \in 1..width |-> ToString(n - 1)]
    IN  [columns |-> labels,
         rows |-> [k \in 1..Len(lists) |->
                     [c \in {labels[n] : n \in 1..width} |->
                        LET n == CHOOSE n \in 1..width : labels[n] = c
                        IN  IF n <= Len(RowItems(lists[k]))
                            THEN Cell(RowItems(lists[k])[n]) ELSE MissingCell]]]

\* DataFrame(non-empty list) goes by the first item: with a dict first,
\* every item is asked for its keys, and a list has none (AttributeError).
DataFrameError(list) ==
    IF list[1].tag = "map" /\ \E k \in 1..Len(list) : list[k].tag # "map"
    THEN "AttributeError" ELSE "none"

\* DataFrame(non-empty list of dicts and lists), when it does not raise.
DataFrame(list) ==
    IF list[1].tag = "map" THEN ListOfDictToArrays(list) ELSE ListToArrays(list)

\* The list pd.json_normalize hands to DataFrame.
Normalised(list) == [k \in 1..Len(list) |-> SimpleJsonNormalize(list[k], ".")]

\* pd.json_normalize(list): an empty list gives DataFrame().
JsonNormalize(list) ==
    IF list = <<>> THEN EmptyFrame ELSE DataFrame(Normalised(list))

Normalize ==
    /\ pc = "normalize"
    /\ IF data # <<>> /\ DataFrameError(Normalised(data)) # "none"
       THEN /\ pc' = "raised"
            /\ error' = DataFrameError(Normalised(data))
            /\ raised_at' = 14
            /\ UNCHANGED frame
       ELSE /\ frame' = JsonNormalize(data)
            /\ pc' = "shift"
            /\ UNCHANGED <<error, raised_at>>
    /\ UNCHANGED <<file, stream, opens, data_nested, i, j, data>>
    /\ UNCHANGED harness

----------------------------------------------------------------------------
(* Line 15: data[[secs, nanos]] = data[[secs, nanos]].shift(-1) *)

TimeColumns == {"secs_since_epoch", "nanos_since_epoch"}

\* A shift up by one row that wraps around (numpy.roll): the first value
\* goes to the last row, whatever periods is.
ShiftWrap(col, periods) ==
    [k \in 1..Len(col) |-> IF k < Len(col) THEN col[k + 1] ELSE col[1]]

\* A shift that moves by one row whatever the size of periods.
ShiftBySign(col, periods) ==
    [k \in 1..Len(col) |->
        IF periods < 0
        THEN (IF k + 1 \in 1..Len(col) THEN col[k + 1] ELSE Null)
        ELSE (IF periods > 0
              THEN (IF k - 1 \in 1..Len(col) THEN col[k - 1] ELSE Null)
              ELSE col[k])]

\* Series.shift(periods): row k takes the value of row k - periods, NaN
\* where there is no such row.
Shift(col, periods) ==
    [k \in 1..Len(col) |->
        IF k - periods \in 1..Len(col) THEN col[k - periods] ELSE Null]

\* frame[c] as a sequence of cells.
Column(fr, c) == [k \in 1..Len(fr.rows) |-> fr.rows[k][c]]

\* frame[labels] = frame[labels].shift(periods)
ShiftColumns(fr, labels, periods) ==
    [columns |-> fr.columns,
     rows |-> [k \in 1..Len(fr.rows) |->
                 [c \in ColumnSet(fr) |->
                    IF c \in labels THEN Shift(Column(fr, c), periods)[k]
                    ELSE fr.rows[k][c]]]]

\* Selecting columns that are not in the frame raises KeyError.
ShiftStep ==
    /\ pc = "shift"
    /\ IF TimeColumns \subseteq ColumnSet(frame)
       THEN /\ frame' = ShiftColumns(frame, TimeColumns, -1)
            /\ pc' = "dropna"
            /\ UNCHANGED <<error, raised_at>>
       ELSE /\ pc' = "raised"
            /\ error' = "KeyError"
            /\ raised_at' = LineShift
            /\ UNCHANGED frame
    /\ UNCHANGED <<file, stream, opens, data_nested, i, j, data>>
    /\ UNCHANGED harness

----------------------------------------------------------------------------
(* Line 16: data = data.dropna().reset_index(drop = True) *)

\* dropna() with no subset keeps a row only when none of its cells is null.
NoNull(row) == \A c \in DOMAIN row : row[c] # Null

\* dropna() keeps the complete rows in order; reset_index(drop = True)
\* numbers them 0, 1, ... again, which is the position in the sequence.
DropNa(fr) == [columns |-> fr.columns, rows |-> SelectSeq(fr.rows, NoNull)]

DropNaStep ==
    /\ pc = "dropna"
    /\ frame' = DropNa(frame)
    /\ pc' = "time"
    /\ UNCHANGED <<file, stream, opens, data_nested, i, j, data, error, raised_at>>
    /\ UNCHANGED harness

----------------------------------------------------------------------------
(* Line 17: data["time"] = pd.to_datetime(secs, unit = "s")
                           + pd.to_timedelta(nanos, unit = "ns") *)

\* An instant or a duration in nanoseconds, kept as whole seconds and the
\* nanoseconds below a second (the value is s * NanosPerSec + ns).
Nanoseconds(count) == [s |-> count \div NanosPerSec, ns |-> count % NanosPerSec]

\* pd.to_datetime(value, unit = "s"): the instant value seconds after the epoch.
ToDatetime(value) == [s |-> value, ns |-> 0]

\* pd.to_timedelta(value, unit = "ns"): a duration of value nanoseconds.
ToTimedelta(value) == Nanoseconds(value)

\* instant + duration, with the carry into the seconds.
AddTime(instant, delta) ==
    [s |-> instant.s + delta.s + (instant.ns + delta.ns) \div NanosPerSec,
     ns |-> (instant.ns + delta.ns) % NanosPerSec]

\* The time of a row from its two epoch cells.
RowTime(secs, nanos) == AddTime(ToDatetime(secs), ToTimedelta(nanos))

\* frame["time"] = ...: a new column goes to the end, row by row.
WithTime(fr) ==
    [columns |-> IF "time" \in ColumnSet(fr) THEN fr.columns ELSE Append(fr.columns, "time"),
     rows |-> [k \in 1..Len(fr.rows) |->
                 [c \in ColumnSet(fr) \cup {"time"} |->
                    IF c = "time"
                    THEN Some(RowTime(fr.rows[k]["secs_since_epoch"][1],
                                      fr.rows[k]["nanos_since_epoch"][1]))
                    ELSE fr.rows[k][c]]]]

TimeStep ==
    /\ pc = "time"
    /\ frame' = WithTime(frame)
    /\ pc' = "drop_columns"
    /\ UNCHANGED <<file, stream, opens, data_nested, i, j, data, error, raised_at>>
    /\ UNCHANGED harness

----------------------------------------------------------------------------
(* Line 18: data.drop([secs, nanos], axis = "columns", inplace = True) *)

\* A drop that leaves the frame as it is.
DropNothing(fr, labels) == fr

\* frame.drop(labels, axis = "columns")
Drop(fr, labels) ==
    LET Kept(c) == c \notin labels
    IN  [columns |-> SelectSeq(fr.columns, Kept),
         rows |-> [k \in 1..Len(fr.rows) |->
                     [c \in ColumnSet(fr) \ labels |-> fr.rows[k][c]]]]

DropColumnsStep ==
    /\ pc = "drop_columns"
    /\ frame' = Drop(frame, TimeColumns)
    /\ pc' = "plot_temperature"
    /\ UNCHANGED <<file, stream, opens, data_nested, i, j, data, error, raised_at>>
    /\ UNCHANGED harness

----------------------------------------------------------------------------
(* Lines 30-48: the plots, one plt.plot statement each.  Reading a column
   that is not in the frame raises KeyError at that statement; the figure
   itself (and lines 31-32, 38-40, 46-48, which read no column) is not
   modelled. *)

\* plt.plot(data["time"], data[label]) at the given line.
PlotLine(at, label, line, next) ==
    /\ pc = at
    /\ IF {"time", label} \subseteq ColumnSet(frame)
       THEN /\ pc' = next
            /\ UNCHANGED <<error, raised_at>>
       ELSE /\ pc' = "raised"
            /\ error' = "KeyError"
            /\ raised_at' = line
    /\ UNCHANGED <<file, stream, opens, data_nested, i, j, data, frame>>
    /\ UNCHANGED harness

PlotTemperature ==
    PlotLine("plot_temperature", "temperature", LinePlotTemperature, "plot_acceleration_x")
PlotAccelerationX ==
    PlotLine("plot_acceleration_x", "acceleration.x", 35, "plot_acceleration_y")
PlotAccelerationY ==
    PlotLine("plot_acceleration_y", "acceleration.y", 36, "plot_acceleration_z")
PlotAccelerationZ ==
    PlotLine("plot_acceleration_z", "acceleration.z", 37, "plot_angular_velocity_x")
PlotAngularVelocityX ==
    PlotLine("plot_angular_velocity_x", "angular_velocity.x", 43, "plot_angular_velocity_y")
PlotAngularVelocityY ==
    PlotLine("plot_angular_velocity_y", "angular_velocity.y", 44, "plot_angular_velocity_z")
PlotAngularVelocityZ ==
    PlotLine("plot_angular_velocity_z", "angular_velocity.z", 45, "done")

----------------------------------------------------------------------------
(* The script *)

Next ==
    \/ Open
    \/ SafeLoad
    \/ WithExit
    \/ FlattenAppend
    \/ FlattenNextSublist
    \/ FlattenDone
    \/ FlattenRaise
    \/ Normalize
    \/ ShiftStep
    \/ DropNaStep
    \/ TimeStep
    \/ DropColumnsStep
    \/ PlotTemperature
    \/ PlotAccelerationX
    \/ PlotAccelerationY
    \/ PlotAccelerationZ
    \/ PlotAngularVelocityX
    \/ PlotAngularVelocityY
    \/ PlotAngularVelocityZ

Spec == Init /\ [][Next]_vars

----------------------------------------------------------------------------
(* The shift of line 15 on its own: Series.shift applied to any column *)

Cells == {Null, Some(0), Some(1)}

InitShift ==
    /\ column \in SeqsUpTo(Cells, MaxColumn)
    /\ pc = "shift_once"
    /\ once = <<>>
    /\ twice = <<>>
    /\ direct = <<>>
    /\ file = [kind |-> "missing", content |-> None]
    /\ stream = "none"
    /\ opens = 0
    /\ data_nested = None
    /\ i = 1
    /\ j = 1
    /\ data = <<>>
    /\ frame = EmptyFrame
    /\ error = "none"
    /\ raised_at = 0

ShiftOnce ==
    /\ pc = "shift_once"
    /\ once' = Shift(column, -1)
    /\ pc' = "shift_again"
    /\ UNCHANGED <<column, twice, direct>>
    /\ UNCHANGED pipeline

ShiftAgain ==
    /\ pc = "shift_again"
    /\ twice' = Shift(once, -1)
    /\ pc' = "shift_by_two"
    /\ UNCHANGED <<column, once, direct>>
    /\ UNCHANGED pipeline

ShiftByTwo ==
    /\ pc = "shift_by_two"
    /\ direct' = Shift(column, -2)
    /\ pc' = "shift_done"
    /\ UNCHANGED <<column, once, twice>>
    /\ UNCHANGED pipeline

NextShift == ShiftOnce \/ ShiftAgain \/ ShiftByTwo

SpecShift == InitShift /\ [][NextShift]_vars

----------------------------------------------------------------------------
----------------------------------------------------------------------------
(* Properties *)

PlotStages ==
    {"plot_temperature", "plot_acceleration_x", "plot_acceleration_y",
     "plot_acceleration_z", "plot_angular_velocity_x", "plot_angular_velocity_y",
     "plot_angular_velocity_z"}

\* The statements after the nested loop, after dropna and after the time
\* column has been computed (a run that raised counts by the line it
\* raised at).
AfterFlatten ==
    \/ pc \in {"normalize", "shift", "dropna", "time", "drop_columns", "done"} \cup PlotStages
    \/ pc = "raised" /\ raised_at >= 14
AfterDropNa ==
    \/ pc \in {"time", "drop_columns", "done"} \cup PlotStages
    \/ pc = "raised" /\ raised_at >= LinePlotTemperature
AfterTime ==
    \/ pc \in {"drop_columns", "done"} \cup PlotStages
    \/ pc = "raised" /\ raised_at >= LinePlotTemperature
AfterDropColumns ==
    \/ pc \in {"done"} \cup PlotStages
    \/ pc = "raised" /\ raised_at >= LinePlotTemperature

\* The document is a sequence of sequences.
IsNested(doc) ==
    doc.tag = "seq" /\ \A k \in 1..Len(doc.items) : doc.items[k].tag = "seq"

\* Every item of the flat list is a record (a mapping).
AllRecords(list) == \A k \in 1..Len(list) : list[k].tag = "map"

RECURSIVE Concat(_)
\* The inner sequences of nested one after the other, in outer order.
Concat(nested) ==
    IF nested = <<>> THEN <<>> ELSE Head(nested).items \o Concat(Tail(nested))

RECURSIVE TotalRecords(_)
\* How many records the inner sequences of nested hold in all.
TotalRecords(nested) ==
    IF nested = <<>> THEN 0 ELSE Len(Head(nested).items) + TotalRecords(Tail(nested))

\* The scalar fields and the nested fields of a record (none for an item
\* that is no mapping).
ScalarFields(record) ==
    IF record.tag = "map" THEN {f \in KeySet(record) : Get(record, f).tag # "map"} ELSE {}
NestedFields(record) ==
    IF record.tag = "map" THEN {f \in KeySet(record) : Get(record, f).tag = "map"} ELSE {}

\* The column names a record gives rise to: its scalar top-level fields and
\* the dot-joined paths of the fields of its nested mappings.
FieldPaths(record) ==
    ScalarFields(record)
    \cup UNION {{f \o "." \o g : g \in KeySet(Get(record, f))} : f \in NestedFields(record)}

\* The cell a record has in column c: its value there, null when the
\* record has no such field.
FieldCell(record, c) ==
    IF c \in ScalarFields(record) THEN Some(Get(record, c).val)
    ELSE IF \E f \in NestedFields(record) : \E g \in KeySet(Get(record, f)) :
                c = f \o "." \o g
         THEN LET f == CHOOSE f \in NestedFields(record) :
                          \E g \in KeySet(Get(record, f)) : c = f \o "." \o g
                  g == CHOOSE g \in KeySet(Get(record, f)) : c = f \o "." \o g
              IN  Some(Get(Get(record, f), g).val)
         ELSE Null

AllFieldPaths(list) == UNION {FieldPaths(list[k]) : k \in 1..Len(list)}

\* secs_since_epoch * 10^9 + nanos_since_epoch of a record.
EpochNanos(record) ==
    Get(record, "secs_since_epoch").val * NanosPerSec + Get(record, "nanos_since_epoch").val

Chronological(list) ==
    /\ AllRecords(list)
    /\ \A k \in 1..(Len(list) - 1) : EpochNanos(list[k]) <= EpochNanos(list[k + 1])

TimeLeq(a, b) == a.s < b.s \/ (a.s = b.s /\ a.ns <= b.ns)

\* C1: on a sequence of sequences, once the nested loop has ended the flat
\* list holds as many records as the inner sequences hold in all, and it
\* is the inner sequences one after the other in outer order.
C1_Flatten ==
    (AfterFlatten /\ IsNested(data_nested)) =>
        /\ Len(data) = TotalRecords(data_nested.items)
        /\ data = Concat(data_nested.items)

\* The loop has ended on an input of two non-empty inner sequences holding
\* three records, the first two of them different.
C1_Witness ==
    /\ pc = "normalize"
    /\ IsNested(data_nested)
    /\ Len(data_nested.items) = 2
    /\ Len(data_nested.items[1].items) = 2
    /\ Len(data_nested.items[2].items) = 1
    /\ data_nested.items[1].items[1] # data_nested.items[1].items[2]
    /\ data = <<data_nested.items[1].items[1], data_nested.items[1].items[2],
                data_nested.items[2].items[1]>>

\* C2: after the shift and the drop, the frame of a list of records has one
\* row less than the normalised frame had (which has one row per record).
C2_RowCount == (AfterDropNa /\ AllRecords(data)) => Len(frame.rows) = Len(data) - 1

\* C3: after the time column is computed, row k carries the non-time fields
\* of flattened record k and the time of record k + 1, and only the last
\* record has no row.
C3_ShiftPairing ==
    (AfterTime /\ AllRecords(data)) =>
        /\ Len(frame.rows) = Len(data) - 1
        /\ \A k \in 1..Len(frame.rows) :
              /\ \A c \in ColumnSet(frame) \ ({"time"} \cup TimeColumns) :
                    frame.rows[k][c] = FieldCell(data[k], c)
              /\ frame.rows[k]["time"]
                    = Some(Nanoseconds(EpochNanos(data[k + 1])))

\* The scenario of C3 alone: the two records of the example leave one row,
\* with temperature 20 and the time 1.5 s after the epoch.
C3_Scenario ==
    (AfterTime /\ data = <<MakeRecord(<<0, 0>>, "T"), MakeRecord(<<1, 500000000>>, "T")>>) =>
        /\ Len(frame.rows) = 1
        /\ frame.rows[1]["temperature"] = Some(20)
        /\ frame.rows[1]["time"] = Some([s |-> 1, ns |-> 500000000])

\* A row that has both of its (shifted) epoch values.
HasTimePair(row) == \A c \in TimeColumns : row[c] # Null

\* C4: the drop removes a row if and only if the row lacks its shifted
\* secs_since_epoch or nanos_since_epoch; a null in another column does
\* not remove it.
C4_DropCriterion ==
    [][(pc = "dropna" /\ AllRecords(data)) => frame'.rows = SelectSeq(frame.rows, HasTimePair)]_vars

\* C5 as stated: the frame the plots read still has the two epoch columns.
C5_SourceColumnsKept == pc \in PlotStages => TimeColumns \subseteq ColumnSet(frame)

\* C5 as amended: the frame the plots read has the time column and neither
\* of the two epoch columns; every other column of the normalised frame is
\* still there, in the frame and in each of its rows.
C5_SourceColumnsDropped ==
    AfterDropColumns =>
        /\ "time" \in ColumnSet(frame)
        /\ ColumnSet(frame) \cap TimeColumns = {}
        /\ ColumnSet(frame) \ {"time"} = AllFieldPaths(data) \ TimeColumns
        /\ \A k \in 1..Len(frame.rows) : DOMAIN frame.rows[k] = ColumnSet(frame)

\* The plots are about to read a frame that has a row.
C5_Witness ==
    /\ pc = "plot_temperature"
    /\ Len(frame.rows) >= 1
    /\ "temperature" \in ColumnSet(frame)

\* C6: on an empty outer sequence the flat list is empty and line 15 (the
\* shift) does not raise.
C6_EmptyInput ==
    (file.kind = "ok" /\ file.content = List(<<>>)) =>
        /\ AfterFlatten => data = <<>>
        /\ ~(pc = "raised" /\ raised_at = LineShift)

\* C7: when the flattened records are in chronological order, the time
\* column is non-decreasing in row order.
C7_Monotone ==
    (AfterTime /\ Chronological(data)) =>
        \A k \in 1..(Len(frame.rows) - 1) :
            TimeLeq(frame.rows[k]["time"][1], frame.rows[k + 1]["time"][1])

\* A finished run on chronological records whose frame has two rows with
\* different times.
C7_Witness ==
    /\ pc = "done"
    /\ Chronological(data)
    /\ Len(frame.rows) >= 2
    /\ frame.rows[1]["time"] # frame.rows[2]["time"]

\* C8: the normalised frame has one row per record in order; its columns
\* are the union of the records' scalar field names and dot-joined nested
\* paths; each row holds its record's values and null where the record
\* lacks the field; acceleration:{x:1,y:2,z:3} gives acceleration.x = 1,
\* acceleration.y = 2, acceleration.z = 3.
C8_Normalizer ==
    (pc = "shift" /\ AllRecords(data)) =>
        /\ Len(frame.rows) = Len(data)
        /\ ColumnSet(frame) = AllFieldPaths(data)
        /\ \A k \in 1..Len(data) :
              /\ DOMAIN frame.rows[k] = ColumnSet(frame)
              /\ \A c \in ColumnSet(frame) : frame.rows[k][c] = FieldCell(data[k], c)
              /\ \A c \in ColumnSet(frame) \ FieldPaths(data[k]) : frame.rows[k][c] = Null
              /\ ("acceleration" \in KeySet(data[k])
                    /\ Get(data[k], "acceleration") = XYZ(1, 2, 3)) =>
                    /\ frame.rows[k]["acceleration.x"] = Some(1)
                    /\ frame.rows[k]["acceleration.y"] = Some(2)
                    /\ frame.rows[k]["acceleration.z"] = Some(3)

\* A normalised frame of a record with nested fields followed by a record
\* without them, whose row is null there.
C8_Witness ==
    /\ pc = "shift"
    /\ Len(data) = 2
    /\ data[1] = MakeRecord(<<0, 0>>, "full")
    /\ data[2] = MakeRecord(<<1, 500000000>>, "T")
    /\ frame.rows[1]["angular_velocity.y"] = Some(5)
    /\ frame.rows[2]["angular_velocity.y"] = Null
    /\ frame.rows[2]["temperature"] = Some(21)

\* C9: shifting a column up by one twice gives the column shifted up by
\* two, the nulls at its end included.
C9_ShiftComposition == pc = "shift_done" => twice = direct

\* Both shifts are done on a column of at least three values whose third
\* is not null: it has moved to the first row, and the last two are null.
C9_Witness ==
    /\ pc = "shift_done"
    /\ Len(column) >= 3
    /\ column[3] # Null
    /\ direct[1] = column[3]
    /\ direct[Len(column)] = Null
    /\ direct[Len(column) - 1] = Null

\* C10: the file is opened at most once; every statement after the with
\* block runs with the handle of the one open closed, and a run that has
\* ended in an exception after the open has the handle closed too.
C10_HandleReleased ==
    /\ opens <= 1
    /\ (pc \notin {"open", "load", "with_exit", "raised"}) => (opens = 1 /\ stream = "closed")
    /\ (pc = "raised" /\ opens = 1) => stream = "closed"
    /\ (pc = "raised" /\ raised_at > 7) => opens = 1

\* The parse failed and the run has ended with the handle closed.
C10_Witness ==
    /\ pc = "raised"
    /\ error = "YAMLError"
    /\ opens = 1
    /\ stream = "closed"

====
